---- MODULE Spec2Model ----
(***************************************************************************)
(* StickerMe: the /generate slash command of src/main.py, its validation,  *)
(* the Stability AI client (ImageGenerator.generate_image) and the file    *)
(* persistence (ImageGenerator.save_image).                                *)
(*                                                                         *)
(* Text is a sequence of one-character strings, bytes a sequence of        *)
(* integers.  An optional argument is <<>> (Python None) or <<v>>.         *)
(***************************************************************************)
EXTENDS Integers, Sequences, FiniteSets, TLC

\* ------------------------------------------------------------------ bounds
\* number of invocations, each its own task on the event loop (SpecConc)
NumTasks == 2
\* the wall clock, in whole seconds, runs over 0..MaxClock
MaxClock == 1

Tasks == 1..NumTasks

\* ------------------------------------------------------- optional values
None == <<>>

Some(v) == <<v>>

Val(x) == x[1]

\* Python truthiness of an Optional[int]: None and 0 are falsy
Truthy(x) == x # None /\ Val(x) # 0

\* ------------------------------------------------------------ preset tables
ASPECT_RATIOS ==
  [ square    |-> <<1024, 1024>>,
    portrait  |-> <<832, 1216>>,
    landscape |-> <<1216, 832>>,
    wide      |-> <<1344, 768>>,
    tall      |-> <<768, 1344>>,
    ultrawide |-> <<1536, 640>>,
    ultratall |-> <<640, 1536>> ]

QUALITY_PRESETS ==
  [ fast     |-> [steps |-> 20, cfg_scale |-> 7],
    standard |-> [steps |-> 30, cfg_scale |-> 7],
    high     |-> [steps |-> 50, cfg_scale |-> 8],
    ultra    |-> [steps |-> 75, cfg_scale |-> 8] ]

STYLE_PRESETS ==
  [
    photographic |->
      <<"p", "h", "o", "t", "o", "g", "r", "a", "p", "h", "i", "c", ",", " ", "r", "e", "a", "l", "i", "s", "t", "i", "c", ",", " ", "d", "e", "t", "a", "i", "l", "e", "d", ",", " ", "h", "i", "g", "h", " ", "q", "u", "a", "l", "i", "t", "y">>,
    artistic |->
      <<"a", "r", "t", "i", "s", "t", "i", "c", ",", " ", "c", "r", "e", "a", "t", "i", "v", "e", ",", " ", "s", "t", "y", "l", "i", "z", "e", "d", ",", " ", "v", "i", "b", "r", "a", "n", "t">>,
    cinematic |->
      <<"c", "i", "n", "e", "m", "a", "t", "i", "c", ",", " ", "d", "r", "a", "m", "a", "t", "i", "c", " ", "l", "i", "g", "h", "t", "i", "n", "g", ",", " ", "m", "o", "v", "i", "e", " ", "s", "t", "i", "l", "l", ",", " ", "p", "r", "o", "f", "e", "s", "s", "i", "o", "n", "a", "l">>,
    anime |->
      <<"a", "n", "i", "m", "e", " ", "s", "t", "y", "l", "e", ",", " ", "m", "a", "n", "g", "a", ",", " ", "c", "e", "l", " ", "s", "h", "a", "d", "e", "d", ",", " ", "c", "o", "l", "o", "r", "f", "u", "l">>,
    oil_painting |->
      <<"o", "i", "l", " ", "p", "a", "i", "n", "t", "i", "n", "g", ",", " ", "t", "e", "x", "t", "u", "r", "e", "d", ",", " ", "a", "r", "t", "i", "s", "t", "i", "c", ",", " ", "t", "r", "a", "d", "i", "t", "i", "o", "n", "a", "l">>,
    watercolor |->
      <<"w", "a", "t", "e", "r", "c", "o", "l", "o", "r", ",", " ", "s", "o", "f", "t", ",", " ", "f", "l", "o", "w", "i", "n", "g", ",", " ", "a", "r", "t", "i", "s", "t", "i", "c">>,
    digital_art |->
      <<"d", "i", "g", "i", "t", "a", "l", " ", "a", "r", "t", ",", " ", "c", "l", "e", "a", "n", ",", " ", "m", "o", "d", "e", "r", "n", ",", " ", "p", "r", "o", "f", "e", "s", "s", "i", "o", "n", "a", "l">>,
    sketch |->
      <<"s", "k", "e", "t", "c", "h", ",", " ", "p", "e", "n", "c", "i", "l", " ", "d", "r", "a", "w", "i", "n", "g", ",", " ", "m", "o", "n", "o", "c", "h", "r", "o", "m", "e", ",", " ", "a", "r", "t", "i", "s", "t", "i", "c">>
  ]

\* ------------------------------------------------------------ text helpers
Letters ==
  { "a","b","c","d","e","f","g","h","i","j","k","l","m",
    "n","o","p","q","r","s","t","u","v","w","x","y","z",
    "A","B","C","D","E","F","G","H","I","J","K","L","M",
    "N","O","P","Q","R","S","T","U","V","W","X","Y","Z" }

Digits == { "0","1","2","3","4","5","6","7","8","9" }

\* str.isalnum() on one character
IsAlnum(c) == c \in Letters \cup Digits

\* c.isalnum() or c in (' ', '-', '_')
KeepChar(c) == IsAlnum(c) \/ c \in {" ", "-", "_"}

RECURSIVE FilterChars(_)
FilterChars(s) ==
  IF s = <<>> THEN <<>>
  ELSE IF KeepChar(Head(s)) THEN <<Head(s)>> \o FilterChars(Tail(s))
       ELSE FilterChars(Tail(s))

\* str.rstrip(): of the kept characters only the space is whitespace
RECURSIVE RStrip(_)
RStrip(s) ==
  IF s = <<>> THEN <<>>
  ELSE IF s[Len(s)] = " " THEN RStrip(SubSeq(s, 1, Len(s) - 1))
       ELSE s

\* s[:n]
Prefix(s, n) == SubSeq(s, 1, IF Len(s) < n THEN Len(s) ELSE n)

\* safe_prompt of save_image (limit 50) and of the download name (limit 30)
SafePrompt(prompt, limit) == Prefix(RStrip(FilterChars(prompt)), limit)

SaveNameLimit == 50

DownloadNameLimit == 30

\* -------------------------------------------------------------- base64
B64Alphabet ==
  << "A","B","C","D","E","F","G","H","I","J","K","L","M",
     "N","O","P","Q","R","S","T","U","V","W","X","Y","Z",
     "a","b","c","d","e","f","g","h","i","j","k","l","m",
     "n","o","p","q","r","s","t","u","v","w","x","y","z",
     "0","1","2","3","4","5","6","7","8","9","+","/" >>

B64Index(c) == (CHOOSE k \in 1..64 : B64Alphabet[k] = c) - 1

\* one group of four characters is 24 bits, i.e. three bytes
B64Group(g) ==
  LET n == B64Index(g[1]) * 262144 + B64Index(g[2]) * 4096
           + B64Index(g[3]) * 64 + B64Index(g[4])
  IN  << n \div 65536, (n \div 256) % 256, n % 256 >>

RECURSIVE B64Bytes(_)
B64Bytes(s) ==
  IF s = <<>> THEN <<>>
  ELSE B64Group(SubSeq(s, 1, 4)) \o B64Bytes(SubSeq(s, 5, Len(s)))

\* base64.b64decode: unpadded text whose length is not a multiple of four
\* raises binascii.Error ("Incorrect padding")
B64Decode(s) ==
  IF Len(s) % 4 # 0 THEN [raised |-> TRUE, data |-> <<>>]
  ELSE [raised |-> FALSE, data |-> B64Bytes(s)]

\* ------------------------------------------------------ request resolution
\* AspectRatioValue falling back to the wrong preset
AspectRatioValue_Portrait(aspect_ratio) ==
  IF aspect_ratio # None THEN Val(aspect_ratio) ELSE "portrait"

\* aspect_ratio.value if aspect_ratio else "square"
AspectRatioValue(aspect_ratio) ==
  IF aspect_ratio # None THEN Val(aspect_ratio) ELSE "square"

\* quality.value if quality else "standard"
QualityValue(quality) ==
  IF quality # None THEN Val(quality) ELSE "standard"

\* style.value if style and style.value != "none" else None
StyleValue(style) ==
  IF style # None /\ Val(style) # "none" THEN style ELSE None

\* if width and height:
CustomDims(width, height) == Truthy(width) /\ Truthy(height)

\* InDimRange with the upper limits forgotten
InDimRange_NoUpper(w, h) == 512 <= w /\ 512 <= h

\* 512 <= width <= 1536 and 512 <= height <= 1536
InDimRange(w, h) == 512 <= w /\ w <= 1536 /\ 512 <= h /\ h <= 1536

\* img_width, img_height
ImgDims(a) ==
  IF CustomDims(a.width, a.height)
  THEN << Val(a.width), Val(a.height) >>
  ELSE ASPECT_RATIOS[AspectRatioValue(a.aspect_ratio)]

\* FinalCfgScale ignoring the explicit argument
FinalCfgScale_PresetOnly(cfg_scale, quality_settings) ==
  quality_settings.cfg_scale

\* cfg_scale if cfg_scale is not None else quality_settings["cfg_scale"]
FinalCfgScale(cfg_scale, quality_settings) ==
  IF cfg_scale # None THEN Val(cfg_scale) ELSE quality_settings.cfg_scale

\* steps if steps is not None else quality_settings["steps"]
FinalSteps(steps, quality_settings) ==
  IF steps # None THEN Val(steps) ELSE quality_settings.steps

\* if final_cfg_scale and not (1 <= final_cfg_scale <= 20)
CfgRejected(final_cfg_scale) ==
  final_cfg_scale # 0 /\ ~(1 <= final_cfg_scale /\ final_cfg_scale <= 20)

\* if final_steps and not (10 <= final_steps <= 150)
StepsRejected(final_steps) ==
  final_steps # 0 /\ ~(10 <= final_steps /\ final_steps <= 150)

\* the request handed to generate_image; meaningful once validation passed
Resolved(a) ==
  LET qs == QUALITY_PRESETS[QualityValue(a.quality)]
  IN  [ prompt    |-> a.prompt,
        width     |-> ImgDims(a)[1],
        height    |-> ImgDims(a)[2],
        cfg_scale |-> FinalCfgScale(a.cfg_scale, qs),
        steps     |-> FinalSteps(a.steps, qs),
        style     |-> StyleValue(a.style) ]

\* The checks of the try block in source order; "" when all of them pass.
ValidationError(a) ==
  IF AspectRatioValue(a.aspect_ratio) \notin DOMAIN ASPECT_RATIOS
    THEN "Invalid aspect ratio"
  ELSE IF CustomDims(a.width, a.height)
          /\ ~InDimRange(Val(a.width), Val(a.height))
    THEN "Width and height must be between 512 and 1536"
  ELSE IF QualityValue(a.quality) \notin DOMAIN QUALITY_PRESETS
    THEN "Invalid quality"
  ELSE IF CfgRejected(Resolved(a).cfg_scale)
    THEN "CFG scale must be between 1 and 20"
  ELSE IF StepsRejected(Resolved(a).steps)
    THEN "Steps must be between 10 and 150"
  ELSE ""

\* ------------------------------------------------------ generation client
\* StyledPrompt joining prompt and preset without the ", "
StyledPrompt_NoSeparator(prompt, style) ==
  IF style # None /\ Val(style) \in DOMAIN STYLE_PRESETS
  THEN prompt \o STYLE_PRESETS[Val(style)]
  ELSE prompt

\* if style and style in STYLE_PRESETS: prompt = f"{prompt}, {preset}"
StyledPrompt(prompt, style) ==
  IF style # None /\ Val(style) \in DOMAIN STYLE_PRESETS
  THEN prompt \o <<",", " ">> \o STYLE_PRESETS[Val(style)]
  ELSE prompt

\* the JSON body of the POST
Payload(req) ==
  [ text      |-> StyledPrompt(req.prompt, req.style),
    weight    |-> 1,
    cfg_scale |-> req.cfg_scale,
    height    |-> req.height,
    width     |-> req.width,
    samples   |-> 1,
    steps     |-> req.steps ]

\* HttpResult without the status test: every answer is read as JSON
HttpResult_NoStatusTest(resp) ==
  IF resp.artifacts # None /\ Len(Val(resp.artifacts)) > 0
  THEN [ raised |-> FALSE, exc |-> "", status |-> 0, body |-> "",
         data |-> B64Decode(Val(resp.artifacts)[1]).data ]
  ELSE [ raised |-> TRUE, exc |-> "No image generated",
         status |-> 0, body |-> "", data |-> <<>> ]

\* What generate_image does with the HTTP response: returns the decoded
\* bytes or raises.  resp.artifacts is None when the key is absent from the
\* JSON, else Some(list of base64 texts).
HttpResult(resp) ==
  IF resp.status = 200
  THEN IF resp.artifacts # None /\ Len(Val(resp.artifacts)) > 0
       THEN LET d == B64Decode(Val(resp.artifacts)[1])
            IN  IF d.raised
                THEN [ raised |-> TRUE, exc |-> "Incorrect padding",
                       status |-> 0, body |-> "", data |-> <<>> ]
                ELSE [ raised |-> FALSE, exc |-> "",
                       status |-> 0, body |-> "", data |-> d.data ]
       ELSE [ raised |-> TRUE, exc |-> "No image generated",
              status |-> 0, body |-> "", data |-> <<>> ]
  ELSE [ raised |-> TRUE, exc |-> "API request failed with status",
         status |-> resp.status, body |-> resp.text, data |-> <<>> ]

\* ------------------------------------------------------------- persistence
\* f"{timestamp}_{user_id}_{safe_prompt}.png": the three parts that vary
Filename(timestamp, user_id, prompt) ==
  << timestamp, user_id, SafePrompt(prompt, SaveNameLimit) >>

\* open(filepath, 'wb'); f.write(image_data): creates or replaces the file
WriteFile(dir, name, data) ==
  [ n \in DOMAIN dir \cup {name} |-> IF n = name THEN data ELSE dir[n] ]

\* ------------------------------------------------------------------ replies
\* an ephemeral error message
ErrorReply(via, msg, exc, status, body) ==
  [ kind |-> "error", via |-> via, ephemeral |-> TRUE, msg |-> msg,
    exc |-> exc, status |-> status, body |-> body,
    embed |-> None, file |-> None, view |-> None ]

\* the public message: embed, attachment and DownloadView
SuccessReply(a, data) ==
  LET r == Resolved(a)
      dl == SafePrompt(a.prompt, DownloadNameLimit)
  IN  [ kind |-> "success", via |-> "followup", ephemeral |-> FALSE,
        msg |-> "", exc |-> "", status |-> 0, body |-> "",
        embed |-> Some([ prompt    |-> a.prompt,
                         width     |-> r.width,
                         height    |-> r.height,
                         quality   |-> QualityValue(a.quality),
                         style     |-> r.style,
                         cfg_scale |-> r.cfg_scale,
                         steps     |-> r.steps ]),
        file |-> Some(data),
        view |-> Some([ image_data |-> data,
                        filename   |-> IF dl # <<>> THEN Some(dl)
                                       ELSE None ]) ]

\* -------------------------------------------------------------- the inputs
Fox == <<"f", "o", "x">>

FoxBang == <<"f", "o", "x", "!">>

\* base64 of the bytes "ABC" and "XYZ"
QUJD == <<"Q", "U", "J", "D">>

WFla == <<"W", "F", "l", "a">>

Opt(S) == {None} \cup { Some(v) : v \in S }

DimSamples == {-1, 0, 511, 512, 1536, 1537}

CfgSamples == {-1, 0, 1, 20, 21}

StepSamples == {-1, 0, 9, 10, 150, 151}

\* one invocation, every combination of the numeric arguments
ArgSpace ==
  [ prompt       : {<<>>, Fox},
    aspect_ratio : Opt(DOMAIN ASPECT_RATIOS \cup {"bogus"}),
    quality      : Opt(DOMAIN QUALITY_PRESETS \cup {"bogus"}),
    style        : {None},
    width        : Opt(DimSamples),
    height       : Opt(DimSamples),
    cfg_scale    : Opt(CfgSamples),
    steps        : Opt(StepSamples),
    user_id      : {1} ]

\* the arguments of a call that passes only a prompt, and perhaps cfg_scale
PromptOnly(user_id, prompt, cfg_scale) ==
  [ prompt |-> prompt, aspect_ratio |-> None, quality |-> None,
    style |-> None, width |-> None, height |-> None,
    cfg_scale |-> cfg_scale, steps |-> None, user_id |-> user_id ]

\* concurrent invocations: two users, prompts that sanitize to the same text,
\* and two calls that fail validation
ConcArgSpace ==
  { PromptOnly(1, Fox, None), PromptOnly(1, FoxBang, None),
    PromptOnly(2, Fox, None), PromptOnly(1, <<>>, None),
    PromptOnly(2, Fox, Some(21)) }

\* one invocation, every style choice of the command (and an unknown one)
StyleArgSpace ==
  [ prompt       : {<<>>, Fox, FoxBang},
    aspect_ratio : Opt({"wide"}),
    quality      : Opt({"high"}),
    style        : Opt(DOMAIN STYLE_PRESETS \cup {"none", "bogus"}),
    width        : {None},
    height       : {None},
    cfg_scale    : {None},
    steps        : {None},
    user_id      : {1} ]

\* what the upstream API may answer
Responses ==
  { [status |-> 200, text |-> "", artifacts |-> Some(<<QUJD>>)],
    [status |-> 200, text |-> "", artifacts |-> Some(<<WFla>>)],
    [status |-> 200, text |-> "", artifacts |-> Some(<<>>)],
    [status |-> 200, text |-> "", artifacts |-> None],
    [status |-> 500, text |-> "server error", artifacts |-> None] }

\* open() succeeds, or raises OSError before anything is written
DiskOutcomes == {"ok", "error"}

\* -------------------------------------------------------------------- state
VARIABLES
  pc,        \* per task: idle, received, deferred, generating, done, failed
  args,      \* per task: the arguments of the invocation
  deferred,  \* per task: interaction.response.defer() was called
  replies,   \* per task: the messages sent on the interaction, in order
  posted,    \* per task: the payloads POSTed to the API, in order
  response,  \* per task: the API's answer, once received
  saved_path,\* per task: the path save_image returned
  files,     \* the images directory: filename -> bytes
  saves,     \* number of save_image calls that wrote their file
  now        \* datetime.now(), in seconds

vars == << pc, args, deferred, replies, posted, response, saved_path,
           files, saves, now >>

NoArgs ==
  [ prompt |-> <<>>, aspect_ratio |-> None, quality |-> None,
    style |-> None, width |-> None, height |-> None,
    cfg_scale |-> None, steps |-> None, user_id |-> 0 ]

Init ==
  /\ pc = [i \in Tasks |-> "idle"]
  /\ args = [i \in Tasks |-> NoArgs]
  /\ deferred = [i \in Tasks |-> FALSE]
  /\ replies = [i \in Tasks |-> <<>>]
  /\ posted = [i \in Tasks |-> <<>>]
  /\ response = [i \in Tasks |-> None]
  /\ saved_path = [i \in Tasks |-> None]
  /\ files = << >>
  /\ saves = 0
  /\ now = 0

\* ------------------------------------------------------ steps of generate
\* StartStep that goes on to validation without calling defer()
StartStep_NoDefer(a) ==
  IF a.prompt = <<>>
  THEN [ pc |-> "failed", deferred |-> FALSE,
         replies |-> << ErrorReply("response", "Please provide a prompt",
                                   "", 0, "") >> ]
  ELSE [ pc |-> "deferred", deferred |-> FALSE, replies |-> <<>> ]

\* lines 265-270: the prompt check, then defer()
StartStep(a) ==
  IF a.prompt = <<>>
  THEN [ pc |-> "failed", deferred |-> FALSE,
         replies |-> << ErrorReply("response", "Please provide a prompt",
                                   "", 0, "") >> ]
  ELSE [ pc |-> "deferred", deferred |-> TRUE, replies |-> <<>> ]

\* ValidateStep whose CFG check reports the error but does not return
ValidateStep_NoReturn(a) ==
  LET e == ValidationError(a)
  IN  IF e = "CFG scale must be between 1 and 20"
      THEN [ pc |-> "generating", posted |-> << Payload(Resolved(a)) >>,
             replies |-> << ErrorReply("followup", e, "", 0, "") >> ]
      ELSE IF e # ""
      THEN [ pc |-> "failed", posted |-> <<>>,
             replies |-> << ErrorReply("followup", e, "", 0, "") >> ]
      ELSE [ pc |-> "generating", posted |-> << Payload(Resolved(a)) >>,
             replies |-> <<>> ]

\* lines 272-324: validation, then the POST of generate_image
ValidateStep(a) ==
  LET e == ValidationError(a)
  IN  IF e # ""
      THEN [ pc |-> "failed", posted |-> <<>>,
             replies |-> << ErrorReply("followup", e, "", 0, "") >> ]
      ELSE [ pc |-> "generating", posted |-> << Payload(Resolved(a)) >>,
             replies |-> <<>> ]

\* lines 161-170 and 326-362: the response arrives, the image is saved and
\* the reply is sent; any exception becomes the ephemeral error of line 362
CompleteStep(a, resp, disk, dir, t) ==
  LET r == HttpResult(resp)
      name == Filename(t, a.user_id, a.prompt)
  IN  IF r.raised
      THEN [ pc |-> "failed", files |-> dir, saved_path |-> None,
             replies |-> << ErrorReply("followup", "Failed to generate image",
                                       r.exc, r.status, r.body) >> ]
      ELSE IF disk # "ok"
      THEN [ pc |-> "failed", files |-> dir, saved_path |-> None,
             replies |-> << ErrorReply("followup", "Failed to generate image",
                                       "OSError", 0, "") >> ]
      ELSE [ pc |-> "done", files |-> WriteFile(dir, name, r.data),
             saved_path |-> Some(name),
             replies |-> << SuccessReply(a, r.data) >> ]

\* ------------------------------------------------------------------ actions
\* the framework dispatches an invocation of /generate to a new task
Receive(i, space) ==
  /\ pc[i] = "idle"
  /\ pc' = [pc EXCEPT ![i] = "received"]
  /\ \E a \in space : args' = [args EXCEPT ![i] = a]
  /\ UNCHANGED << deferred, replies, posted, response, saved_path,
                  files, saves, now >>

Start(i) ==
  /\ pc[i] = "received"
  /\ LET s == StartStep(args[i])
     IN  /\ pc' = [pc EXCEPT ![i] = s.pc]
         /\ deferred' = [deferred EXCEPT ![i] = s.deferred]
         /\ replies' = [replies EXCEPT ![i] = @ \o s.replies]
  /\ UNCHANGED << args, posted, response, saved_path, files, saves, now >>

Validate(i) ==
  /\ pc[i] = "deferred"
  /\ LET s == ValidateStep(args[i])
     IN  /\ pc' = [pc EXCEPT ![i] = s.pc]
         /\ posted' = [posted EXCEPT ![i] = @ \o s.posted]
         /\ replies' = [replies EXCEPT ![i] = @ \o s.replies]
  /\ UNCHANGED << args, deferred, response, saved_path, files, saves, now >>

Complete(i, resp, disk) ==
  /\ pc[i] = "generating"
  /\ LET s == CompleteStep(args[i], resp, disk, files, now)
     IN  /\ pc' = [pc EXCEPT ![i] = s.pc]
         /\ files' = s.files
         /\ saved_path' = [saved_path EXCEPT ![i] = s.saved_path]
         /\ saves' = IF s.saved_path # None THEN saves + 1 ELSE saves
         /\ replies' = [replies EXCEPT ![i] = @ \o s.replies]
  /\ response' = [response EXCEPT ![i] = Some(resp)]
  /\ UNCHANGED << args, deferred, posted, now >>

\* a second passes
Tick ==
  /\ now < MaxClock
  /\ now' = now + 1
  /\ UNCHANGED << pc, args, deferred, replies, posted, response,
                  saved_path, files, saves >>

\* one invocation, all argument combinations
Next ==
  \/ Receive(1, ArgSpace)
  \/ Start(1)
  \/ Validate(1)
  \/ \E resp \in Responses, disk \in DiskOutcomes : Complete(1, resp, disk)

Spec == Init /\ [][Next]_vars

\* invocations overlapping on the event loop
NextConc ==
  \/ \E i \in Tasks : Receive(i, ConcArgSpace)
  \/ \E i \in Tasks : Start(i)
  \/ \E i \in Tasks : Validate(i)
  \/ \E i \in Tasks, resp \in Responses, disk \in DiskOutcomes :
       Complete(i, resp, disk)
  \/ Tick

SpecConc == Init /\ [][NextConc]_vars

\* one invocation, all style choices
NextStyle ==
  \/ Receive(1, StyleArgSpace)
  \/ Start(1)
  \/ Validate(1)
  \/ \E resp \in Responses, disk \in DiskOutcomes : Complete(1, resp, disk)

SpecStyle == Init /\ [][NextStyle]_vars

\* ================================================================== claims
\* the invocation has run its validation (or failed before it)
Validated(i) == pc[i] \in {"generating", "done", "failed"}

InRange(v, lo, hi) == lo <= v /\ v <= hi

\* the cfgScale / steps an invocation resolves to: the explicit argument if
\* supplied, else the quality preset's; None when the quality key is unknown
ClaimCfg(a) ==
  IF a.cfg_scale # None THEN a.cfg_scale
  ELSE IF QualityValue(a.quality) \in DOMAIN QUALITY_PRESETS
       THEN Some(QUALITY_PRESETS[QualityValue(a.quality)].cfg_scale)
       ELSE None

ClaimSteps(a) ==
  IF a.steps # None THEN a.steps
  ELSE IF QualityValue(a.quality) \in DOMAIN QUALITY_PRESETS
       THEN Some(QUALITY_PRESETS[QualityValue(a.quality)].steps)
       ELSE None

CfgOutside(a) == ClaimCfg(a) # None /\ ~InRange(Val(ClaimCfg(a)), 1, 20)

StepsOutside(a) == ClaimSteps(a) # None /\ ~InRange(Val(ClaimSteps(a)), 10, 150)

\* both dimensions supplied, at least one outside [512, 1536]
DimsOutside(a) ==
  /\ a.width # None
  /\ a.height # None
  /\ ~(InRange(Val(a.width), 512, 1536) /\ InRange(Val(a.height), 512, 1536))

\* the invocation ended with one ephemeral error and never called the API
RejectedUnsent(i) ==
  /\ pc[i] = "failed"
  /\ posted[i] = <<>>
  /\ Len(replies[i]) = 1
  /\ replies[i][1].kind = "error"

\* C1: an invocation whose resolved cfgScale is outside [1, 20] or whose
\* resolved steps is outside [10, 150], for any integer including 0 and
\* negatives, ends with a validation error and issues no API call.
C1_OutOfRangeRejected ==
  \A i \in Tasks :
    Validated(i) /\ (CfgOutside(args[i]) \/ StepsOutside(args[i]))
      => RejectedUnsent(i)

\* C2: an invocation with explicit width and height of which at least one is
\* outside [512, 1536], for any integer including 0 and negatives, ends with
\* a validation error, does not fall back to the aspect-ratio preset and
\* issues no API call.
C2_BadDimsRejected ==
  \A i \in Tasks :
    Validated(i) /\ DimsOutside(args[i]) => RejectedUnsent(i)

\* C3 as stated: every invocation is deferred before any validation check,
\* the prompt check included, so nothing is replied on an invocation that
\* was not deferred.
C3_AlwaysDeferredFirst ==
  \A i \in Tasks :
    (pc[i] \notin {"idle", "received"} \/ replies[i] # <<>>) => deferred[i]

\* C3 amended: an invocation is deferred exactly when its prompt is
\* non-empty; once deferred every reply is a follow-up; an empty prompt gets
\* one direct ephemeral error, no deferral and no API call.
C3_DeferredUnlessEmptyPrompt ==
  \A i \in Tasks :
    pc[i] \notin {"idle", "received"} =>
      /\ deferred[i] <=> args[i].prompt # <<>>
      /\ deferred[i] =>
           \A k \in DOMAIN replies[i] : replies[i][k].via = "followup"
      /\ ~deferred[i] =>
           /\ pc[i] = "failed"
           /\ posted[i] = <<>>
           /\ Len(replies[i]) = 1
           /\ replies[i][1].via = "response"
           /\ replies[i][1].kind = "error"
           /\ replies[i][1].ephemeral
           /\ replies[i][1].msg = "Please provide a prompt"

\* a deferred invocation that failed a later validation check
C3_Witness ==
  \E i \in Tasks :
    /\ pc[i] = "failed"
    /\ deferred[i]
    /\ Len(replies[i]) = 1
    /\ replies[i][1].msg = "Invalid aspect ratio"

ValidationMsgs ==
  { "Please provide a prompt",
    "Invalid aspect ratio",
    "Width and height must be between 512 and 1536",
    "Invalid quality",
    "CFG scale must be between 1 and 20",
    "Steps must be between 10 and 150" }

\* the reply state of every task matches the stage it stopped at
C4_ReplyMatchesOutcome ==
  \A i \in Tasks :
    /\ pc[i] \in {"idle", "received", "deferred", "generating"}
         => replies[i] = <<>>
    /\ pc[i] = "failed" =>
         /\ Len(replies[i]) = 1
         /\ replies[i][1].kind = "error"
         /\ replies[i][1].ephemeral
         /\ replies[i][1].embed = None
         /\ replies[i][1].file = None
         /\ replies[i][1].view = None
         /\ replies[i][1].msg \in ValidationMsgs
              => posted[i] = <<>> /\ response[i] = None
         /\ replies[i][1].msg \notin ValidationMsgs
              => Len(posted[i]) = 1 /\ response[i] # None
    /\ pc[i] = "done" =>
         /\ Len(replies[i]) = 1
         /\ replies[i][1].kind = "success"
         /\ ~replies[i][1].ephemeral
         /\ replies[i][1].embed # None
         /\ replies[i][1].file # None
         /\ replies[i][1].view # None
         /\ Len(posted[i]) = 1
         /\ response[i] # None

\* a step that fails a task writes no file and touches no other task; a
\* task that has replied does nothing more
C4_FailureIsLocal ==
  \A i \in Tasks :
    /\ pc[i] # "failed" /\ pc'[i] = "failed" =>
         /\ files' = files
         /\ saves' = saves
         /\ \A j \in Tasks \ {i} :
              /\ pc'[j] = pc[j]
              /\ args'[j] = args[j]
              /\ replies'[j] = replies[j]
              /\ posted'[j] = posted[j]
    /\ pc[i] \in {"done", "failed"} =>
         /\ pc'[i] = pc[i]
         /\ replies'[i] = replies[i]
         /\ posted'[i] = posted[i]
         /\ saved_path'[i] = saved_path[i]

\* C4: every invocation ends with exactly one reply: a single ephemeral
\* error when validation, the API call or the file write fails, after which
\* no later stage runs; a single public message with embed, attachment and
\* download control when all stages succeed; never both; and a failing
\* invocation leaves the other invocations and the directory untouched.
C4_ExactlyOneReply == []C4_ReplyMatchesOutcome /\ [][C4_FailureIsLocal]_vars

\* one invocation failed its validation, another one was served
C4_Witness ==
  /\ \E i, j \in Tasks :
       /\ pc[i] = "failed"
       /\ replies[i][1].msg = "CFG scale must be between 1 and 20"
       /\ pc[j] = "done"
       /\ replies[j][1].kind = "success"

\* the lowest-numbered check of the list (1)..(6) that the arguments violate
FirstViolated(a) ==
  IF a.prompt = <<>> THEN "Please provide a prompt"
  ELSE IF a.aspect_ratio # None
          /\ Val(a.aspect_ratio) \notin DOMAIN ASPECT_RATIOS
    THEN "Invalid aspect ratio"
  ELSE IF DimsOutside(a)
    THEN "Width and height must be between 512 and 1536"
  ELSE IF a.quality # None /\ Val(a.quality) \notin DOMAIN QUALITY_PRESETS
    THEN "Invalid quality"
  ELSE IF CfgOutside(a) THEN "CFG scale must be between 1 and 20"
  ELSE IF StepsOutside(a) THEN "Steps must be between 10 and 150"
  ELSE ""

\* C5: the checks are evaluated in the order (1)..(6); an invocation that
\* violates several reports the lowest-numbered violated check and performs
\* no later check, no API call and no file write.
C5_FirstViolatedReported ==
  \A i \in Tasks :
    Validated(i) /\ FirstViolated(args[i]) # "" =>
      /\ RejectedUnsent(i)
      /\ replies[i][1].msg = FirstViolated(args[i])
      /\ response[i] = None
      /\ saves = 0

\* C6: every request handed to the Generation Client has width and height
\* within [512, 1536], whatever aspect-ratio key and explicit width/height
\* (absent, one without the other, 0, any integer) were supplied.
C6_SentDimsInRange ==
  \A i \in Tasks :
    \A k \in DOMAIN posted[i] :
      /\ InRange(posted[i][k].width, 512, 1536)
      /\ InRange(posted[i][k].height, 512, 1536)

\* a request was sent although width 0 came with an out-of-range height
C6_Witness ==
  \E i \in Tasks :
    /\ posted[i] # <<>>
    /\ args[i].width = Some(0)
    /\ args[i].height = Some(1537)
    /\ args[i].aspect_ratio = Some("ultrawide")

NoOverrides(a) ==
  a.width = None /\ a.height = None /\ a.cfg_scale = None /\ a.steps = None

\* C7: without explicit width, height, cfg_scale and steps the request
\* carries the tabulated (width, height) of the aspect-ratio key and the
\* tabulated (steps, cfg_scale) of the quality key; a missing key means
\* "square" resp. "standard", so a prompt-only call sends 1024x1024, cfg 7,
\* 30 steps and the prompt without a style suffix.
C7_PresetsExact ==
  \A i \in Tasks :
    posted[i] # <<>> /\ NoOverrides(args[i]) =>
      LET a == args[i]
          p == posted[i][1]
          ak == IF a.aspect_ratio = None THEN "square" ELSE Val(a.aspect_ratio)
          qk == IF a.quality = None THEN "standard" ELSE Val(a.quality)
      IN  /\ << p.width, p.height >> = ASPECT_RATIOS[ak]
          /\ p.steps = QUALITY_PRESETS[qk].steps
          /\ p.cfg_scale = QUALITY_PRESETS[qk].cfg_scale
          /\ a.aspect_ratio = None /\ a.quality = None /\ a.style = None
               => /\ p.width = 1024 /\ p.height = 1024
                  /\ p.cfg_scale = 7 /\ p.steps = 30
                  /\ p.text = a.prompt

\* the prompt-only call reached the API
C7_Witness ==
  \E i \in Tasks :
    /\ posted[i] # <<>>
    /\ NoOverrides(args[i])
    /\ args[i].aspect_ratio = None
    /\ args[i].quality = None
    /\ args[i].style = None
    /\ args[i].prompt = Fox

ExplicitDimsInRange(a) ==
  /\ a.width # None /\ InRange(Val(a.width), 512, 1536)
  /\ a.height # None /\ InRange(Val(a.height), 512, 1536)

\* C8: explicit width and height both within [512, 1536] are accepted and
\* sent unchanged whatever the aspect-ratio key; an explicit cfg_scale in
\* [1, 20] or steps in [10, 150] is sent unchanged whatever the quality key,
\* the other of the two still coming from the quality preset.
C8_OverridesWin ==
  \A i \in Tasks :
    Validated(i) =>
      LET a == args[i]
          qk == IF a.quality = None THEN "standard" ELSE Val(a.quality)
      IN  /\ ExplicitDimsInRange(a) /\ replies[i] # <<>> =>
               replies[i][1].msg
                 # "Width and height must be between 512 and 1536"
          /\ ExplicitDimsInRange(a) /\ FirstViolated(a) = "" =>
               posted[i] # <<>>
          /\ posted[i] # <<>> =>
               LET p == posted[i][1]
               IN  /\ ExplicitDimsInRange(a) =>
                        p.width = Val(a.width) /\ p.height = Val(a.height)
                   /\ a.cfg_scale # None /\ InRange(Val(a.cfg_scale), 1, 20) =>
                        /\ p.cfg_scale = Val(a.cfg_scale)
                        /\ a.steps = None =>
                             p.steps = QUALITY_PRESETS[qk].steps
                   /\ a.steps # None /\ InRange(Val(a.steps), 10, 150) =>
                        /\ p.steps = Val(a.steps)
                        /\ a.cfg_scale = None =>
                             p.cfg_scale = QUALITY_PRESETS[qk].cfg_scale

\* explicit 512x1536 over the "wide" preset, explicit cfg 20 over "fast"
C8_Witness ==
  \E i \in Tasks :
    /\ posted[i] # <<>>
    /\ args[i].aspect_ratio = Some("wide")
    /\ args[i].width = Some(512)
    /\ args[i].height = Some(1536)
    /\ args[i].quality = Some("fast")
    /\ args[i].cfg_scale = Some(20)
    /\ args[i].steps = None
    /\ posted[i][1].steps = 20

HasArtifact(r) ==
  r.status = 200 /\ r.artifacts # None /\ Len(Val(r.artifacts)) > 0

\* C9: a file is written and the public reply sent only after the API
\* answered 200 with a non-empty artifacts list; a non-200 answer fails with
\* an error carrying the status code and the body text, a 200 answer with an
\* empty or absent artifacts list fails with the "no image" error, and in
\* both cases nothing is written and the API is not called again.
C9_OnlyAfterArtifact ==
  /\ (DOMAIN files # {} \/ saves # 0) =>
       \E i \in Tasks : response[i] # None /\ HasArtifact(Val(response[i]))
  /\ \A i \in Tasks :
    /\ pc[i] = "done" =>
         response[i] # None /\ HasArtifact(Val(response[i]))
    /\ response[i] # None /\ ~HasArtifact(Val(response[i])) =>
         LET r == Val(response[i])
         IN  /\ pc[i] = "failed"
             /\ Len(posted[i]) = 1
             /\ DOMAIN files = {}
             /\ saves = 0
             /\ Len(replies[i]) = 1
             /\ replies[i][1].kind = "error"
             /\ r.status # 200 =>
                  /\ replies[i][1].exc = "API request failed with status"
                  /\ replies[i][1].status = r.status
                  /\ replies[i][1].body = r.text
             /\ r.status = 200 =>
                  replies[i][1].exc = "No image generated"

\* the API answered 500 "server error" and the caller was told so
C9_Witness ==
  \E i \in Tasks :
    /\ pc[i] = "failed"
    /\ response[i] # None
    /\ Val(response[i]).status = 500
    /\ replies[i][1].status = 500
    /\ replies[i][1].body = "server error"

\* no invocation is in flight
Quiescent == \A i \in Tasks : pc[i] \in {"idle", "done", "failed"}

\* the bytes generated by a served invocation: the attachment of its reply
ImageData(i) == Val(replies[i][1].file)

\* C10: under any interleaving, once the invocations have completed the
\* images directory holds one file per successful generation, each with the
\* bytes of the generation that wrote it, also for two invocations of one
\* user with the same sanitized prompt within the same second.
C10_OneFilePerGeneration ==
  Quiescent =>
    /\ Cardinality(DOMAIN files) = saves
    /\ \A i \in Tasks :
         pc[i] = "done" =>
           /\ saved_path[i] # None
           /\ Val(saved_path[i]) \in DOMAIN files
           /\ files[Val(saved_path[i])] = ImageData(i)

\* C11: the text sent to the API is the user's prompt unchanged when the
\* style is unspecified or "none", and exactly prompt + ", " + preset text
\* for every style key of the table; the saved filename, the embed and the
\* download name are always built from the unstyled prompt.
C11_StyleOnlyInSentText ==
  \A i \in Tasks :
    LET a == args[i]
    IN  /\ posted[i] # <<>> =>
             LET text == posted[i][1].text
             IN  /\ (a.style = None \/ a.style = Some("none")) =>
                      text = a.prompt
                 /\ (a.style # None
                     /\ Val(a.style) \in DOMAIN STYLE_PRESETS) =>
                      /\ Len(text)
                           = Len(a.prompt) + 2 + Len(STYLE_PRESETS[Val(a.style)])
                      /\ SubSeq(text, 1, Len(a.prompt)) = a.prompt
                      /\ text[Len(a.prompt) + 1] = ","
                      /\ text[Len(a.prompt) + 2] = " "
                      /\ SubSeq(text, Len(a.prompt) + 3, Len(text))
                           = STYLE_PRESETS[Val(a.style)]
        /\ pc[i] = "done" =>
             /\ saved_path[i] # None
             /\ Val(saved_path[i])[3]
                  = Prefix(RStrip(FilterChars(a.prompt)), 50)
             /\ Val(replies[i][1].embed).prompt = a.prompt
             /\ Val(replies[i][1].view).filename
                  = Some(Prefix(RStrip(FilterChars(a.prompt)), 30))

\* "fox!" in anime style was sent with the suffix and saved as "fox"
C11_Witness ==
  \E i \in Tasks :
    /\ pc[i] = "done"
    /\ args[i].prompt = FoxBang
    /\ args[i].style = Some("anime")
    /\ Len(posted[i][1].text) = 46
    /\ Val(saved_path[i])[3] = Fox
====
